---- MODULE Spec2Model ----
(***************************************************************************)
(* Capture / encode pipeline of ScreenRecorder (src/src/core/video.py):    *)
(* the capture thread, the frame queue with its overflow handling, the     *)
(* writer thread with its adaptive mode, the recording loop with its       *)
(* finalization, and the audio/video merge.                                *)
(***************************************************************************)
EXTENDS Integers, Sequences, FiniteSets, TLC

(* ---------------- bounds of the model ---------------------------------- *)

\* cfg.buffer_size (a configuration value, default 30)
buffer_size == 3

\* capture-loop iterations explored by Spec
MaxTicks == 9

\* capture-loop iterations explored by SpecBacklog
BacklogTicks == 240

\* cfg.save_audio_separately (the RecorderConfig default)

save_audio_separately == FALSE

\* cfg.mouse_highlight and cfg.use_webcam: sessions recorded with the mouse highlight
mouse_highlight == TRUE

use_webcam == FALSE

(* ---------------- constants of the program ------------------------------ *)

KeyInterval == 30

ScanBound == 5

max_batch_size == 5

BehindLimit == 3

DropLimit == 10

\* cfg.fps: frames per second, the clock of the model counting frame intervals
fps == 30

\* the overflow path reports when the drop counter is a multiple of this
LogEvery == 10

\* and not more often than every 5 s: current_time - last_emergency_log > 5
LogGap == 5 * fps

\* cap of the observation-run counters high_run / clear_run
RunCap == 4

\* maxsize of ScreenRecorder._frame_queue
QueueMax == buffer_size * 2

\* capture iterations per session in SpecLife and SpecRestart
LifeTicks == 2

\* recording loops that one recorder runs in SpecRestart, at most
MaxSessions == 2

\* calls of stop() after a call of start() in SpecLife, at most
MaxStops == 2

\* capacity of the audio queue (64 in the code), scaled down
AudioQueueMax == 2

\* audio blocks delivered in a session, at most
MaxBlocks == 5

\* the size below which _mux_audio_video refuses a file
MinPlausibleSize == 1024

(* ---------------- state -------------------------------------------------- *)

VARIABLES
    \* shared pipeline state of ScreenRecorder
    frame_queue,        \* _frame_queue: FIFO of frame records, possibly the sentinel
    frame_count,        \* _frame_count
    dropped_frames,     \* _dropped_frames
    emergency_mode,     \* _emergency_mode (Degraded when TRUE)
    stop_event,         \* _stop_event
    writer,             \* _writer: "none" | "open" | "released"
    last_exception,     \* _last_exception: "none" or an error name
    \* capture thread
    cap_pc,             \* position of _dedicated_capture_thread
    frame_data,         \* its local frame_data
    temp_frames,        \* its local temp_frames (key frames taken out, not yet put back)
    dropped_old,        \* its local dropped_old
    last_emergency_log, \* its local last_emergency_log
    now,                \* last reading of the session clock (frame intervals)
    next_frame_time,    \* its local next_frame_time (frame intervals)
    last_put,           \* the frame the capture thread enqueued last (new frames only)
    \* writer thread
    wr_pc,              \* position of _dedicated_write_thread
    wr_frame,           \* its local frame_data
    processed_frame,    \* its local processed_frame: "overlaid" or "raw" ("none" before)
    dequeued_degraded,  \* _emergency_mode as it was when wr_frame was dequeued
    frames_behind,      \* its local frames_behind
    batch_write_buffer, \* its local batch_write_buffer
    sink_count,         \* number of frames handed to the video sink
    sink_last,          \* frame_number of the frame handed to the sink last (-1: none)
    high_run,           \* consecutive dequeue observations above the high-water mark
    clear_run,          \* consecutive observations at/below it since Degraded was entered
    \* recording loop, stop() and the files
    rl_pc,              \* position of _recording_loop / _finalize_recording
    st_pc,              \* position of stop()
    audio_recorder,     \* _audio_recorder: "none" | "running" | "stopped"
    video_file,         \* the temporary video file: "absent" | "small" | "ok"
    audio_file,         \* the temporary audio file (wav_path)
    output_file,        \* cfg.output_path
    audio_copy,         \* <output base>_audio.wav written by the fallback
    merge_result,       \* outcome of the merge step: "none" until it ran
    sct,                \* _sct, the screen-capture handle: "none" | "open" | "closed"
    stop_calls,         \* calls of stop() since the last call of start()
    sessions,           \* recording loops that have finalized
    record_audio,       \* cfg.record_audio, fixed when the recorder is constructed
    \* AudioRecorder
    au_q,               \* _q: FIFO of audio blocks (numbered in delivery order)
    au_stop,            \* _stop
    au_stream,          \* _stream: "none" | "running" | "closed"
    au_sf,              \* _sf, the sound file: "none" | "open" | "closed"
    au_pc,              \* position of _writer_loop
    au_data,            \* its local data (0: none)
    au_stop_pc,         \* position of AudioRecorder.stop()
    au_delivered,       \* blocks delivered to _audio_callback so far
    au_enqueued,        \* blocks that _audio_callback has put into the queue
    au_written          \* blocks written to the sound file, in the order of the writes

pipeVars == <<frame_queue, frame_count, dropped_frames, emergency_mode, stop_event,
              writer, last_exception>>
capVars  == <<cap_pc, frame_data, temp_frames, dropped_old, now, next_frame_time, last_put,
              last_emergency_log>>
wrVars   == <<wr_pc, wr_frame, processed_frame, dequeued_degraded, frames_behind,
              batch_write_buffer, sink_count, sink_last,
              high_run, clear_run>>
fileVars == <<audio_recorder, video_file, audio_file, output_file, audio_copy, merge_result>>
ctlVars  == <<rl_pc, st_pc>>

lifeVars == <<sct, stop_calls, sessions, record_audio>>
auVars   == <<au_q, au_stop, au_stream, au_sf, au_pc, au_data, au_stop_pc, au_delivered,
              au_enqueued, au_written>>

\* the state of the ScreenRecorder alone
videoVars == <<pipeVars, capVars, wrVars, fileVars, ctlVars, lifeVars>>

vars == <<pipeVars, capVars, wrVars, fileVars, ctlVars, lifeVars, auVars>>

(* ---------------- frames -------------------------------------------------- *)

\* the None sentinel that _finalize_recording puts into the frame queue
None == [frame_number |-> -1, timestamp |-> -1, is_key_frame |-> FALSE]

NoFrame == [frame_number |-> -2, timestamp |-> -2, is_key_frame |-> FALSE]

IsKeyFrame(n) == n % KeyInterval = 0

MakeFrame(n, t) == [frame_number |-> n, timestamp |-> t, is_key_frame |-> IsKeyFrame(n)]

Min(a, b) == IF a < b THEN a ELSE b

Max(a, b) == IF a > b THEN a ELSE b

\* sizes in bytes that a closed file may have
FileSizes == {0, MinPlausibleSize - 1, MinPlausibleSize, 2 * MinPlausibleSize}

\* how _mux_audio_video sees a file of that size: "small" fails "size < 1024"
SizeClass(bytes) == IF bytes < MinPlausibleSize THEN "small" ELSE "ok"

\* VideoPath with the temporary path whatever the configuration
VideoPathTmp(audio) == "tmp"

\* the path that _setup_video_writer opens the video writer on: the temporary video
\* path when audio is recorded, cfg.output_path otherwise
VideoPath(audio) == IF audio THEN "tmp" ELSE "out"

\* the file behind the video writer comes to the given state
WriterOutput(class) ==
    IF VideoPath(record_audio) = "tmp"
    THEN video_file' = class /\ UNCHANGED output_file
    ELSE output_file' = class /\ UNCHANGED video_file

\* queue.Queue.full() / put_nowait raising queue.Full
QueueFull(q) == Len(q) >= QueueMax

\* queue_size > cfg.buffer_size * 0.75
AboveHighWater(queue_size) == 4 * queue_size > 3 * buffer_size

CapAlive == cap_pc \notin {"idle", "done"}

WrAlive == wr_pc \notin {"idle", "done"}

\* the mss instance that the capture thread creates for itself when it starts:
\* nothing in the thread or in the recorder closes it
thread_sct == IF cap_pc = "idle" THEN "none" ELSE "open"

\* len(frame_buffer_pool)
PoolSize == 2

\* the pool slot that the capture iteration in progress refills: it moves on by one
\* with every iteration that grabs, as next_frame_time does; pixel buffers are
\* numbered, 0 .. PoolSize - 1 being the buffers of the pool
buffer_index == (next_frame_time - 1) % PoolSize

\* FrameBuffer with the frame record holding the pool buffer it was grabbed into
FrameBufferShared(frame) == (frame.timestamp - 1) % PoolSize

\* the pixel buffer of a frame record: cv2.cvtColor returns a new array and
\* frame_buffer.copy() another, so each record holds a buffer allocated in its own
\* iteration (the timestamp of a record is the index of its iteration)
FrameBuffer(frame) == PoolSize + frame.timestamp

(* ---------------- initial state ------------------------------------------- *)

Init ==
    /\ frame_queue = <<>>
    /\ frame_count = 0
    /\ dropped_frames = 0
    /\ emergency_mode = FALSE
    /\ stop_event = FALSE
    /\ writer = "none"
    /\ last_exception = "none"
    /\ cap_pc = "idle"
    /\ frame_data = NoFrame
    /\ temp_frames = <<>>
    /\ dropped_old = FALSE
    /\ last_emergency_log = 0
    /\ now = 0
    /\ next_frame_time = 1
    /\ last_put = NoFrame
    /\ wr_pc = "idle"
    /\ wr_frame = NoFrame
    /\ processed_frame = "none"
    /\ dequeued_degraded = FALSE
    /\ frames_behind = 0
    /\ batch_write_buffer = <<>>
    /\ sink_count = 0
    /\ sink_last = -1
    /\ high_run = 0
    /\ clear_run = 0
    /\ rl_pc = "idle"
    /\ st_pc = "none"
    /\ audio_recorder = "none"
    /\ video_file = "absent"
    /\ audio_file = "absent"
    /\ output_file = "absent"
    /\ audio_copy = "absent"
    /\ merge_result = "none"
    /\ sct = "none"
    /\ stop_calls = 0
    /\ sessions = 0
    /\ record_audio \in BOOLEAN
    /\ au_q = <<>>
    /\ au_stop = FALSE
    /\ au_stream = "none"
    /\ au_sf = "none"
    /\ au_pc = "idle"
    /\ au_data = 0
    /\ au_stop_pc = "none"
    /\ au_delivered = 0
    /\ au_enqueued = 0
    /\ au_written = <<>>

(* ---------------- capture thread ------------------------------------------ *)

\* end of one capture iteration: next_frame_time += self._frame_interval
EndIteration ==
    /\ next_frame_time' = next_frame_time + 1
    /\ cap_pc' = "loop"
    /\ temp_frames' = <<>>

\* the report at the end of the overflow path ("Production mode: n frames
\* optimized"): a status message and its time stamp, nothing else
EmergencyLog ==
    last_emergency_log' =
        IF dropped_frames' % LogEvery = 0 /\ now - last_emergency_log > LogGap
        THEN now ELSE last_emergency_log

\* the bare "except:" of the overflow handling: the drop is counted, the frames
\* held in temp_frames and the new frame are gone; q is what is left of the queue
OverflowFailed(q) ==
    /\ dropped_frames' = dropped_frames + 1
    /\ frame_queue' = q
    /\ EndIteration
    /\ EmergencyLog
    /\ UNCHANGED <<frame_count, last_put, dropped_old>>

\* the loop test observes the stop signal
CapExit ==
    /\ cap_pc = "loop"
    /\ stop_event
    /\ cap_pc' = "done"
    /\ UNCHANGED <<pipeVars, frame_data, temp_frames, dropped_old, last_emergency_log, now,
                   next_frame_time, last_put, wrVars, fileVars, ctlVars>>
    /\ UNCHANGED <<lifeVars, auVars>>

\* the loop test passes and the clock reading current_time has reached the target
\* instant (the sleep branch before that changes nothing but the clock)
CapDue ==
    /\ cap_pc = "loop"
    /\ ~stop_event
    /\ now' = Max(now, next_frame_time)
    /\ cap_pc' = "grab"
    /\ UNCHANGED <<pipeVars, frame_data, temp_frames, dropped_old, last_emergency_log,
                   next_frame_time,
                   last_put, wrVars, fileVars, ctlVars>>
    /\ UNCHANGED <<lifeVars, auVars>>

\* CapPut with a blocking put in place of put_nowait
CapPutBlocking ==
    /\ cap_pc = "grab"
    /\ ~QueueFull(frame_queue)
    /\ frame_data' = MakeFrame(frame_count, now)
    /\ frame_queue' = Append(frame_queue, frame_data')
    /\ frame_count' = frame_count + 1
    /\ last_put' = frame_data'
    /\ EndIteration
    /\ UNCHANGED <<dropped_old, last_emergency_log, dropped_frames, emergency_mode, stop_event,
                   writer,
                   last_exception, now, wrVars, fileVars, ctlVars>>
    /\ UNCHANGED <<lifeVars, auVars>>

\* the grab, the frame_data record and the first put_nowait
CapPut ==
    /\ cap_pc = "grab"
    /\ frame_data' = MakeFrame(frame_count, now)
    /\ IF ~QueueFull(frame_queue)
       THEN /\ frame_queue' = Append(frame_queue, frame_data')
            /\ frame_count' = frame_count + 1
            /\ last_put' = frame_data'
            /\ EndIteration
            /\ UNCHANGED <<dropped_old, last_emergency_log>>
       ELSE /\ cap_pc' = "scan"
            /\ dropped_old' = FALSE
            /\ temp_frames' = <<>>
            /\ UNCHANGED <<frame_queue, frame_count, last_put, next_frame_time,
                           last_emergency_log>>
    /\ UNCHANGED <<dropped_frames, emergency_mode, stop_event, writer, last_exception,
                   now, wrVars, fileVars, ctlVars>>
    /\ UNCHANGED <<lifeVars, auVars>>

\* while not self._frame_queue.empty() and len(temp_frames) < 5
CapScanTest ==
    /\ cap_pc = "scan"
    /\ cap_pc' = IF frame_queue # <<>> /\ Len(temp_frames) < ScanBound
                 THEN "scan_get" ELSE "putback"
    /\ UNCHANGED <<pipeVars, frame_data, temp_frames, dropped_old, last_emergency_log, now,
                   next_frame_time, last_put, wrVars, fileVars, ctlVars>>
    /\ UNCHANGED <<lifeVars, auVars>>

\* old_frame = self._frame_queue.get_nowait() and the key-frame test
CapScanGet ==
    /\ cap_pc = "scan_get"
    /\ IF frame_queue = <<>>
       THEN \* queue.Empty
            OverflowFailed(frame_queue)
       ELSE IF Head(frame_queue) = None
       THEN \* None.get('is_key_frame', False) raises AttributeError
            OverflowFailed(Tail(frame_queue))
       ELSE /\ frame_queue' = Tail(frame_queue)
            /\ IF ~Head(frame_queue).is_key_frame
               THEN /\ dropped_old' = TRUE
                    /\ cap_pc' = "putback"
                    /\ UNCHANGED temp_frames
               ELSE /\ temp_frames' = Append(temp_frames, Head(frame_queue))
                    /\ cap_pc' = "scan"
                    /\ UNCHANGED dropped_old
            /\ UNCHANGED <<frame_count, dropped_frames, last_put, next_frame_time,
                           last_emergency_log>>
    /\ UNCHANGED <<emergency_mode, stop_event, writer, last_exception, frame_data, now,
                   wrVars, fileVars, ctlVars>>
    /\ UNCHANGED <<lifeVars, auVars>>

\* for temp_frame in temp_frames: self._frame_queue.put_nowait(temp_frame)
CapPutBack ==
    /\ cap_pc = "putback"
    /\ temp_frames # <<>>
    /\ IF QueueFull(frame_queue)
       THEN OverflowFailed(frame_queue)
       ELSE /\ frame_queue' = Append(frame_queue, Head(temp_frames))
            /\ temp_frames' = Tail(temp_frames)
            /\ UNCHANGED <<cap_pc, frame_count, dropped_frames, last_put, dropped_old,
                           last_emergency_log,
                           next_frame_time>>
    /\ UNCHANGED <<emergency_mode, stop_event, writer, last_exception, frame_data, now,
                   wrVars, fileVars, ctlVars>>
    /\ UNCHANGED <<lifeVars, auVars>>

\* self._frame_queue.put_nowait(frame_data) of the overflow path and the drop count
CapPutNew ==
    /\ cap_pc = "putback"
    /\ temp_frames = <<>>
    /\ IF QueueFull(frame_queue)
       THEN OverflowFailed(frame_queue)
       ELSE /\ frame_queue' = Append(frame_queue, frame_data)
            /\ last_put' = frame_data
            /\ dropped_frames' = dropped_frames + 1
            /\ EndIteration
            /\ EmergencyLog
            /\ UNCHANGED <<frame_count, dropped_old>>
    /\ UNCHANGED <<emergency_mode, stop_event, writer, last_exception, frame_data, now,
                   wrVars, fileVars, ctlVars>>
    /\ UNCHANGED <<lifeVars, auVars>>

\* every step of the capture thread
CaptureStep == CapExit \/ CapDue \/ CapPut \/ CapScanTest
               \/ CapScanGet \/ CapPutBack \/ CapPutNew

(* ---------------- writer thread -------------------------------------------- *)

\* frames of a batch that reach the sink: each write is guarded by "if self._writer"
Written(batch) == IF writer = "open" THEN batch ELSE <<>>

\* for batch_item in batch_write_buffer: ... self._writer.write(...); then clear()
Flush(batch) ==
    /\ sink_count' = sink_count + Len(Written(batch))
    /\ sink_last' = IF Written(batch) = <<>> THEN sink_last
                    ELSE Written(batch)[Len(batch)].frame_number
    /\ batch_write_buffer' = <<>>

\* while not self._stop_event.is_set() or not self._frame_queue.empty()
WrLoop ==
    /\ wr_pc = "loop"
    /\ wr_pc' = IF ~stop_event \/ frame_queue # <<>> THEN "get" ELSE "final"
    /\ UNCHANGED <<pipeVars, capVars, wr_frame, processed_frame, dequeued_degraded,
                   frames_behind, batch_write_buffer,
                   sink_count, sink_last, high_run, clear_run, fileVars, ctlVars>>
    /\ UNCHANGED <<lifeVars, auVars>>

\* frame_data = self._frame_queue.get(timeout=0.5) returning an item
WrGet ==
    /\ wr_pc = "get"
    /\ frame_queue # <<>>
    /\ frame_queue' = Tail(frame_queue)
    /\ IF Head(frame_queue) = None
       THEN /\ wr_pc' = "final"
            /\ UNCHANGED <<wr_frame, dequeued_degraded>>
       ELSE /\ wr_pc' = "process"
            /\ wr_frame' = Head(frame_queue)
            /\ dequeued_degraded' = emergency_mode
    /\ UNCHANGED <<frame_count, dropped_frames, emergency_mode, stop_event, writer,
                   last_exception, capVars, processed_frame, frames_behind, batch_write_buffer,
                   sink_count, sink_last, high_run, clear_run, fileVars, ctlVars>>
    /\ UNCHANGED <<lifeVars, auVars>>

\* the get timing out on an empty queue: except queue.Empty flushes the batch
WrGetTimeout ==
    /\ wr_pc = "get"
    /\ frame_queue = <<>>
    /\ Flush(batch_write_buffer)
    /\ wr_pc' = "loop"
    /\ UNCHANGED <<pipeVars, capVars, wr_frame, processed_frame, dequeued_degraded,
                   frames_behind, high_run, clear_run,
                   fileVars, ctlVars>>
    /\ UNCHANGED <<lifeVars, auVars>>

\* Overlay with the compositing done in every mode
OverlayAlways(mode) == IF mouse_highlight \/ use_webcam THEN "overlaid" ELSE "raw"

\* processed_frame: the frame composited by _process_frame_overlays when the mode is
\* not emergency at this point of the iteration and an overlay is configured, the
\* frame as dequeued otherwise
Overlay(mode) == IF ~mode /\ (mouse_highlight \/ use_webcam) THEN "overlaid" ELSE "raw"

\* frames_behind after one observation of the queue size
NextBehind(behind, queue_size) ==
    IF AboveHighWater(queue_size) THEN behind + 1 ELSE Max(0, behind - 1)

\* NextMode entering Degraded one observation early
NextModeEarly(mode, behind, queue_size) ==
    IF AboveHighWater(queue_size)
    THEN (IF NextBehind(behind, queue_size) >= BehindLimit /\ ~mode THEN TRUE ELSE mode)
    ELSE (IF NextBehind(behind, queue_size) = 0 /\ mode THEN FALSE ELSE mode)

\* _emergency_mode after one observation of the queue size
NextMode(mode, behind, queue_size) ==
    IF AboveHighWater(queue_size)
    THEN (IF NextBehind(behind, queue_size) > BehindLimit /\ ~mode THEN TRUE ELSE mode)
    ELSE (IF NextBehind(behind, queue_size) = 0 /\ mode THEN FALSE ELSE mode)

\* one dequeued frame: queue observation, adaptive mode, batch append, batch write
WrProcess ==
    /\ wr_pc = "process"
    /\ LET queue_size == Len(frame_queue)
           mode == NextMode(emergency_mode, frames_behind, queue_size)
           batch == Append(batch_write_buffer, wr_frame)
       IN /\ frames_behind' = NextBehind(frames_behind, queue_size)
          /\ emergency_mode' = mode
          /\ processed_frame' = Overlay(mode)
          /\ high_run' = IF AboveHighWater(queue_size) THEN Min(high_run + 1, RunCap) ELSE 0
          /\ clear_run' = IF AboveHighWater(queue_size) \/ (~emergency_mode /\ mode) THEN 0
                          ELSE IF emergency_mode THEN Min(clear_run + 1, RunCap)
                          ELSE 0
          /\ IF Len(batch) >= max_batch_size \/ mode
             THEN Flush(batch)
             ELSE /\ batch_write_buffer' = batch
                  /\ UNCHANGED <<sink_count, sink_last>>
    /\ wr_pc' = "loop"
    /\ UNCHANGED <<frame_queue, frame_count, dropped_frames, stop_event, writer,
                   last_exception, capVars, wr_frame, dequeued_degraded, fileVars, ctlVars>>
    /\ UNCHANGED <<lifeVars, auVars>>

\* the final flush after the loop
WrFinal ==
    /\ wr_pc = "final"
    /\ Flush(batch_write_buffer)
    /\ wr_pc' = "done"
    /\ UNCHANGED <<pipeVars, capVars, wr_frame, processed_frame, dequeued_degraded,
                   frames_behind, high_run, clear_run,
                   fileVars, ctlVars>>
    /\ UNCHANGED <<lifeVars, auVars>>

\* every step of the writer thread
WriterStep == WrLoop \/ WrGet \/ WrGetTimeout \/ WrProcess \/ WrFinal

(* ---------------- recording loop, finalization, stop() ---------------------- *)

\* start() on a recorder that has no recording thread yet: clears the stop signal
\* and the stored error, spawns _recording_loop
Start ==
    /\ rl_pc = "idle"
    /\ stop_event' = FALSE
    /\ last_exception' = "none"
    /\ rl_pc' = "setup"
    /\ stop_calls' = 0
    /\ UNCHANGED <<frame_queue, frame_count, dropped_frames, emergency_mode, writer,
                   capVars, wrVars, fileVars, st_pc, sct, sessions, record_audio>>
    /\ UNCHANGED auVars

\* SetupFailed with the exception passed over
SetupFailedSilently(ex) == UNCHANGED last_exception /\ rl_pc' = "fin_join_capture"

\* an exception raised in the Starting phase: the handler of _recording_loop stores
\* it and the finally clause runs _finalize_recording
SetupFailed(ex) == last_exception' = ex /\ rl_pc' = "fin_join_capture"

\* the Starting phase of _recording_loop: audio start, probe frame, video writer,
\* stop signal cleared again, capture and writer threads spawned
RlSetup ==
    /\ rl_pc = "setup"
    /\ sct' = "open"
    /\ \E audio_ok \in BOOLEAN, writer_ok \in BOOLEAN :
        /\ IF record_audio /\ audio_ok
           THEN audio_recorder' = "running" /\ audio_file' = SizeClass(0)
           ELSE audio_recorder' = "none" /\ UNCHANGED audio_file
        /\ IF writer_ok
           THEN /\ writer' = "open"
                /\ WriterOutput(SizeClass(0))
                /\ stop_event' = FALSE
                /\ cap_pc' = "loop"
                /\ wr_pc' = "loop"
                /\ rl_pc' = "monitor"
                \* the locals of the two threads and the clock of the session
                /\ now' = 0
                /\ next_frame_time' = 1
                /\ last_emergency_log' = 0
                /\ frames_behind' = 0
                /\ batch_write_buffer' = <<>>
                /\ UNCHANGED last_exception
           ELSE /\ SetupFailed("writer_open_failed")
                /\ UNCHANGED <<writer, video_file, output_file, stop_event, cap_pc, wr_pc, now,
                               last_emergency_log,
                               next_frame_time, frames_behind, batch_write_buffer>>
    /\ UNCHANGED <<frame_queue, frame_count, dropped_frames, emergency_mode,
                   frame_data, temp_frames, dropped_old, last_put,
                   wr_frame, processed_frame, dequeued_degraded, sink_count, sink_last,
                   high_run, clear_run, audio_copy, merge_result, st_pc,
                   stop_calls, sessions, record_audio>>
    /\ UNCHANGED auVars

\* one round of the monitor loop: loop test, statistics (every 5 s), thread health
RlMonitorNoHealth ==
    /\ rl_pc = "monitor"
    /\ IF stop_event
       THEN /\ rl_pc' = "fin_join_capture"
            /\ UNCHANGED <<emergency_mode, clear_run>>
       ELSE /\ \E stats_due \in BOOLEAN :
                IF stats_due /\ dropped_frames > DropLimit /\ ~emergency_mode
                THEN emergency_mode' = TRUE /\ clear_run' = 0
                ELSE UNCHANGED <<emergency_mode, clear_run>>
            /\ rl_pc' = "monitor"
    /\ UNCHANGED <<frame_queue, frame_count, dropped_frames, stop_event, writer,
                   last_exception, capVars, wr_pc, wr_frame, processed_frame,
                   dequeued_degraded, frames_behind,
                   batch_write_buffer, sink_count, sink_last, high_run, fileVars, st_pc>>
    /\ UNCHANGED <<lifeVars, auVars>>

RlMonitor ==
    /\ rl_pc = "monitor"
    /\ IF stop_event
       THEN /\ rl_pc' = "fin_join_capture"
            /\ UNCHANGED <<emergency_mode, clear_run>>
       ELSE /\ \E stats_due \in BOOLEAN :
                IF stats_due /\ dropped_frames > DropLimit /\ ~emergency_mode
                THEN emergency_mode' = TRUE /\ clear_run' = 0
                ELSE UNCHANGED <<emergency_mode, clear_run>>
            /\ rl_pc' = IF ~CapAlive \/ ~WrAlive THEN "fin_join_capture" ELSE "monitor"
    /\ UNCHANGED <<frame_queue, frame_count, dropped_frames, stop_event, writer,
                   last_exception, capVars, wr_pc, wr_frame, processed_frame,
                   dequeued_degraded, frames_behind,
                   batch_write_buffer, sink_count, sink_last, high_run, fileVars, st_pc>>
    /\ UNCHANGED <<lifeVars, auVars>>

\* _finalize_recording: self._capture_thread.join(timeout=2.0); the join returns
\* when the thread has ended, or expires on a thread that the stop signal never reaches
RlJoinCapture ==
    /\ rl_pc = "fin_join_capture"
    /\ ~CapAlive \/ ~stop_event
    /\ rl_pc' = "fin_sentinel"
    /\ UNCHANGED <<pipeVars, capVars, wrVars, fileVars, st_pc>>
    /\ UNCHANGED <<lifeVars, auVars>>

\* _finalize_recording: the None sentinel for a writer thread that is alive
RlSentinel ==
    /\ rl_pc = "fin_sentinel"
    /\ IF WrAlive
       THEN /\ frame_queue' = IF QueueFull(frame_queue) THEN frame_queue
                              ELSE Append(frame_queue, None)
            /\ rl_pc' = "fin_join_writer"
       ELSE /\ rl_pc' = "fin_release"
            /\ UNCHANGED frame_queue
    /\ UNCHANGED <<frame_count, dropped_frames, emergency_mode, stop_event, writer,
                   last_exception, capVars, wrVars, fileVars, st_pc>>
    /\ UNCHANGED <<lifeVars, auVars>>

\* the sentinel is in the queue
SentinelQueued == \E i \in 1..Len(frame_queue) : frame_queue[i] = None

\* _finalize_recording: self._write_thread.join(timeout=5.0); the join returns when
\* the thread has ended, or expires on a thread that neither the sentinel nor the
\* stop signal reaches
RlJoinWriter ==
    /\ rl_pc = "fin_join_writer"
    /\ ~WrAlive \/ (~stop_event /\ ~SentinelQueued /\ wr_pc # "final")
    /\ rl_pc' = "fin_release"
    /\ UNCHANGED <<pipeVars, capVars, wrVars, fileVars, st_pc>>
    /\ UNCHANGED <<lifeVars, auVars>>

\* RlRelease leaving the video writer open
RlReleaseSkipped ==
    /\ rl_pc = "fin_release"
    /\ rl_pc' = "fin_audio"
    /\ UNCHANGED <<pipeVars, capVars, wrVars, fileVars, st_pc, lifeVars, auVars>>

\* _finalize_recording: release of the video writer
RlRelease ==
    /\ rl_pc = "fin_release"
    /\ IF writer = "open"
       THEN /\ writer' = "released"
            /\ \E bytes \in FileSizes : WriterOutput(SizeClass(bytes))
       ELSE UNCHANGED <<writer, video_file, output_file>>
    /\ rl_pc' = "fin_audio"
    /\ UNCHANGED <<frame_queue, frame_count, dropped_frames, emergency_mode, stop_event,
                   last_exception, capVars, wrVars, audio_recorder, audio_file,
                   audio_copy, merge_result, st_pc>>
    /\ UNCHANGED <<lifeVars, auVars>>

\* _finalize_recording: self._audio_recorder.stop() when audio is recorded
RlAudioStop ==
    /\ rl_pc = "fin_audio"
    /\ IF record_audio /\ audio_recorder # "none"
       THEN /\ audio_recorder' = "stopped"
            /\ \E bytes \in FileSizes : audio_file' = SizeClass(bytes)
            /\ rl_pc' = IF save_audio_separately THEN "fin_separate" ELSE "fin_mux"
       ELSE /\ rl_pc' = "fin_cleanup"
            /\ UNCHANGED <<audio_recorder, audio_file>>
    /\ UNCHANGED <<pipeVars, capVars, wrVars, video_file, output_file, audio_copy,
                   merge_result, st_pc>>
    /\ UNCHANGED <<lifeVars, auVars>>

(* ---------------- the merge of audio and video ------------------------------ *)

\* MuxOutcome without the two size checks
MuxOutcomeUnsized(audio, video, tool, run) ==
    IF audio = "absent" THEN "audio_missing"
    ELSE IF video = "absent" THEN "video_missing"
    ELSE IF tool = "missing" THEN "tool_missing"
    ELSE IF tool = "broken" THEN "tool_broken"
    ELSE IF run = "ok" THEN "merged"
    ELSE run

\* what _mux_audio_video comes to: the checks before the tool runs raise in the
\* order of the code; tool is what find_ffmpeg_path / test_ffmpeg report, run is
\* how subprocess.run and the output check end
MuxOutcome(audio, video, tool, run) ==
    IF audio = "absent" THEN "audio_missing"
    ELSE IF video = "absent" THEN "video_missing"
    ELSE IF audio = "small" THEN "audio_too_small"
    ELSE IF video = "small" THEN "video_too_small"
    ELSE IF tool = "missing" THEN "tool_missing"
    ELSE IF tool = "broken" THEN "tool_broken"
    ELSE IF run = "ok" THEN "merged"
    ELSE run

\* the outcomes in which the try / finally block around subprocess.run was entered
ToolRan(outcome) ==
    outcome \in {"merged", "nonzero_exit", "timeout", "no_output", "run_error"}

\* TempAfterMux with the removal only where the tool failed
TempAfterMuxOnFailure(outcome, file) ==
    IF ToolRan(outcome) /\ outcome # "merged" THEN "absent" ELSE file

\* a temporary file after _mux_audio_video: the finally block removes it
TempAfterMux(outcome, file) == IF ToolRan(outcome) THEN "absent" ELSE file

\* RlMux storing the failure of the merge as the error of the recorder
RlMuxEscalating ==
    /\ rl_pc = "fin_mux"
    /\ \E tool \in {"ok", "missing", "broken"},
          run \in {"ok", "nonzero_exit", "timeout", "no_output", "run_error"},
          copy_ok \in BOOLEAN :
        LET outcome == MuxOutcome(audio_file, video_file, tool, run)
            audio == TempAfterMux(outcome, audio_file)
        IN /\ merge_result' = outcome
           /\ video_file' = TempAfterMux(outcome, video_file)
           /\ audio_file' = audio
           /\ output_file' = IF outcome = "merged" THEN "ok" ELSE output_file
           /\ audio_copy' = IF outcome # "merged" /\ audio # "absent" /\ copy_ok
                            THEN audio ELSE audio_copy
           /\ last_exception' = IF outcome = "merged" THEN last_exception ELSE outcome
    /\ rl_pc' = "fin_cleanup"
    /\ UNCHANGED <<frame_queue, frame_count, dropped_frames, emergency_mode, stop_event,
                   writer, capVars, wrVars, audio_recorder, st_pc, lifeVars, auVars>>

\* _finalize_recording: _mux_audio_video and, when it raised, the fallback that
\* copies the audio file next to the output
RlMux ==
    /\ rl_pc = "fin_mux"
    /\ \E tool \in {"ok", "missing", "broken"},
          run \in {"ok", "nonzero_exit", "timeout", "no_output", "run_error"},
          copy_ok \in BOOLEAN :
        LET outcome == MuxOutcome(audio_file, video_file, tool, run)
            audio == TempAfterMux(outcome, audio_file)
        IN /\ merge_result' = outcome
           /\ video_file' = TempAfterMux(outcome, video_file)
           /\ audio_file' = audio
           /\ output_file' = IF outcome = "merged" THEN "ok" ELSE output_file
           /\ audio_copy' = IF outcome # "merged" /\ audio # "absent" /\ copy_ok
                            THEN audio ELSE audio_copy
    /\ rl_pc' = "fin_cleanup"
    /\ UNCHANGED <<pipeVars, capVars, wrVars, audio_recorder, st_pc>>
    /\ UNCHANGED <<lifeVars, auVars>>

\* _cleanup: the video writer is released and the screen-capture handle closed if
\* they are still held (no webcam is opened: cfg.use_webcam is off)
CleanupWriter ==
    /\ IF writer = "open"
       THEN /\ writer' = "released"
            /\ \E bytes \in FileSizes : WriterOutput(SizeClass(bytes))
       ELSE UNCHANGED <<writer, video_file, output_file>>
    /\ sct' = IF sct = "open" THEN "closed" ELSE sct

\* _finalize_recording: finally: self._cleanup(); the recording loop ends
RlCleanup ==
    /\ rl_pc = "fin_cleanup"
    /\ CleanupWriter
    /\ rl_pc' = "done"
    /\ sessions' = sessions + 1
    /\ UNCHANGED <<frame_queue, frame_count, dropped_frames, emergency_mode, stop_event,
                   last_exception, capVars, wrVars, audio_recorder, audio_file,
                   audio_copy, merge_result, st_pc, stop_calls, record_audio>>
    /\ UNCHANGED auVars

\* the first call of stop(): self._stop_event.set()
Stop ==
    /\ st_pc = "none"
    /\ stop_event' = TRUE
    /\ st_pc' = "join"
    /\ stop_calls' = stop_calls + 1
    /\ UNCHANGED <<frame_queue, frame_count, dropped_frames, emergency_mode, writer,
                   last_exception, capVars, wrVars, fileVars, rl_pc, sct, sessions, record_audio>>
    /\ UNCHANGED auVars

\* StopJoinExpires for a join without a timeout, which never expires
StopJoinUnbounded == FALSE

\* the 5 s join of stop() expires only where the recording loop is held longer:
\* in the merge, or in a monitor loop that the stop signal does not reach
StopJoinExpires ==
    \/ rl_pc = "fin_mux"
    \/ rl_pc = "monitor" /\ ~stop_event

\* stop(): self._thread.join(timeout=5), then self._cleanup()
StopCleanup ==
    /\ st_pc = "join"
    /\ rl_pc \in {"idle", "done"} \/ StopJoinExpires
    /\ CleanupWriter
    /\ st_pc' = "done"
    /\ UNCHANGED <<frame_queue, frame_count, dropped_frames, emergency_mode, stop_event,
                   last_exception, capVars, wrVars, audio_recorder, audio_file,
                   audio_copy, merge_result, rl_pc, stop_calls, sessions, record_audio>>
    /\ UNCHANGED auVars

(* ---------------- later calls, failures and expired joins ------------------- *)

\* start() on a recorder whose recording thread has ended (self._thread.is_alive()
\* is false): the same as the first start(); taken here once the capture and the
\* writer thread of the session before are gone
Restart ==
    /\ rl_pc = "done"
    /\ ~CapAlive
    /\ ~WrAlive
    /\ sessions < MaxSessions
    /\ stop_event' = FALSE
    /\ last_exception' = "none"
    /\ rl_pc' = "setup"
    /\ stop_calls' = 0
    /\ UNCHANGED <<frame_queue, frame_count, dropped_frames, emergency_mode, writer,
                   capVars, wrVars, fileVars, st_pc, sct, sessions, record_audio, auVars>>

\* a call of stop() after an earlier call has returned
StopAgain ==
    /\ st_pc = "done"
    /\ stop_calls < MaxStops
    /\ stop_event' = TRUE
    /\ st_pc' = "join"
    /\ stop_calls' = stop_calls + 1
    /\ UNCHANGED <<frame_queue, frame_count, dropped_frames, emergency_mode, writer,
                   last_exception, capVars, wrVars, fileVars, rl_pc, sct, sessions, record_audio,
                   auVars>>

\* thread_sct.grab or the conversion of the frame raises: "except Exception ... break"
\* ends the capture thread
CapGrabFails ==
    /\ cap_pc = "grab"
    /\ cap_pc' = "done"
    /\ UNCHANGED <<pipeVars, frame_data, temp_frames, dropped_old, last_emergency_log, now,
                   next_frame_time,
                   last_put, wrVars, fileVars, ctlVars, lifeVars, auVars>>

\* self._writer.write raises in the flush of "except queue.Empty": the exception
\* leaves the loop, the outer handler stores it and the writer thread ends
WrFlushFails ==
    /\ wr_pc = "get"
    /\ frame_queue = <<>>
    /\ batch_write_buffer # <<>>
    /\ writer = "open"
    /\ last_exception' = "write_failed"
    /\ wr_pc' = "done"
    /\ UNCHANGED <<frame_queue, frame_count, dropped_frames, emergency_mode, stop_event,
                   writer, capVars, wr_frame, processed_frame, dequeued_degraded,
                   frames_behind, batch_write_buffer,
                   sink_count, sink_last, high_run, clear_run, fileVars, ctlVars,
                   lifeVars, auVars>>

\* self._capture_thread.join(timeout=2.0) expiring on a capture thread that is
\* still alive
RlJoinCaptureTimeout ==
    /\ rl_pc = "fin_join_capture"
    /\ CapAlive
    /\ rl_pc' = "fin_sentinel"
    /\ UNCHANGED <<pipeVars, capVars, wrVars, fileVars, st_pc, lifeVars, auVars>>

\* RlJoinWriterTimeout for a join without a timeout
RlJoinWriterUnbounded ==
    /\ rl_pc = "fin_join_writer"
    /\ ~WrAlive
    /\ rl_pc' = "fin_release"
    /\ UNCHANGED <<pipeVars, capVars, wrVars, fileVars, st_pc, lifeVars, auVars>>

\* self._write_thread.join(timeout=5.0) expiring on a writer thread that is still
\* alive
RlJoinWriterTimeout ==
    /\ rl_pc = "fin_join_writer"
    /\ WrAlive
    /\ rl_pc' = "fin_release"
    /\ UNCHANGED <<pipeVars, capVars, wrVars, fileVars, st_pc, lifeVars, auVars>>

\* the 5 s join of stop() expiring while the recording loop, after the 2 s of its
\* join of the capture thread, waits for the writer thread; then self._cleanup()
StopJoinTimeout ==
    /\ st_pc = "join"
    /\ rl_pc = "fin_join_writer"
    /\ WrAlive
    /\ CleanupWriter
    /\ st_pc' = "done"
    /\ UNCHANGED <<frame_queue, frame_count, dropped_frames, emergency_mode, stop_event,
                   last_exception, capVars, wrVars, audio_recorder, audio_file,
                   audio_copy, merge_result, rl_pc, stop_calls, sessions, record_audio,
                   auVars>>

(* ---------------- AudioRecorder --------------------------------------------- *)

\* AudioRecorder.start(): sound file opened, input stream started, writer thread
\* spawned, then self.status_callback(...) inside the try: if the callback raises,
\* the handler closes and forgets the sound file (_cleanup) and start() raises
AudioStart ==
    /\ au_stream = "none"
    /\ au_stop_pc = "none"
    /\ \E status_raises \in BOOLEAN : au_sf' = IF status_raises THEN "none" ELSE "open"
    /\ au_stream' = "running"
    /\ au_pc' = "loop"
    /\ UNCHANGED <<au_q, au_stop, au_data, au_stop_pc, au_delivered, au_enqueued,
                   au_written, videoVars>>

\* AudioCallback with a blocking put in place of put_nowait
AudioCallbackBlocking ==
    /\ au_stream = "running"
    /\ au_delivered < MaxBlocks
    /\ Len(au_q) < AudioQueueMax
    /\ au_delivered' = au_delivered + 1
    /\ au_q' = Append(au_q, au_delivered')
    /\ au_enqueued' = au_enqueued + 1
    /\ UNCHANGED <<au_stop, au_stream, au_sf, au_pc, au_data, au_stop_pc, au_written,
                   videoVars>>

\* _audio_callback: put_nowait of the block; on queue.Full the block is let go
AudioCallback ==
    /\ au_stream = "running"
    /\ au_delivered < MaxBlocks
    /\ au_delivered' = au_delivered + 1
    /\ IF Len(au_q) < AudioQueueMax
       THEN au_q' = Append(au_q, au_delivered') /\ au_enqueued' = au_enqueued + 1
       ELSE UNCHANGED <<au_q, au_enqueued>>
    /\ UNCHANGED <<au_stop, au_stream, au_sf, au_pc, au_data, au_stop_pc, au_written,
                   videoVars>>

\* _writer_loop: while not self._stop.is_set() or not self._q.empty()
AuLoop ==
    /\ au_pc = "loop"
    /\ au_pc' = IF ~au_stop \/ au_q # <<>> THEN "get" ELSE "done"
    /\ UNCHANGED <<au_q, au_stop, au_stream, au_sf, au_data, au_stop_pc, au_delivered,
                   au_enqueued, au_written, videoVars>>

\* AuGet taking the block queued last
AuGetNewest ==
    /\ au_pc = "get"
    /\ au_q # <<>>
    /\ au_data' = au_q[Len(au_q)]
    /\ au_q' = SubSeq(au_q, 1, Len(au_q) - 1)
    /\ au_pc' = "write"
    /\ UNCHANGED <<au_stop, au_stream, au_sf, au_stop_pc, au_delivered, au_enqueued,
                   au_written, videoVars>>

\* _writer_loop: data = self._q.get(timeout=0.2) returning a block
AuGet ==
    /\ au_pc = "get"
    /\ au_q # <<>>
    /\ au_data' = Head(au_q)
    /\ au_q' = Tail(au_q)
    /\ au_pc' = "write"
    /\ UNCHANGED <<au_stop, au_stream, au_sf, au_stop_pc, au_delivered, au_enqueued,
                   au_written, videoVars>>

\* _writer_loop: the get timing out on an empty queue: continue
AuGetTimeout ==
    /\ au_pc = "get"
    /\ au_q = <<>>
    /\ au_pc' = "loop"
    /\ UNCHANGED <<au_q, au_stop, au_stream, au_sf, au_data, au_stop_pc, au_delivered,
                   au_enqueued, au_written, videoVars>>

\* _writer_loop: self._sf.write(data) when there is a sound file; a write that
\* raises (always, on a closed file) is passed over
AuWrite ==
    /\ au_pc = "write"
    /\ \E write_ok \in BOOLEAN :
        au_written' = IF au_sf = "open" /\ write_ok THEN Append(au_written, au_data)
                      ELSE au_written
    /\ au_data' = 0
    /\ au_pc' = "loop"
    /\ UNCHANGED <<au_q, au_stop, au_stream, au_sf, au_stop_pc, au_delivered,
                   au_enqueued, videoVars>>

\* AudioRecorder.stop(): self._stop.set()
AudioStop ==
    /\ au_stop_pc = "none"
    /\ au_stream = "running"
    /\ au_stop' = TRUE
    /\ au_stop_pc' = "stream"
    /\ UNCHANGED <<au_q, au_stream, au_sf, au_pc, au_data, au_delivered, au_enqueued,
                   au_written, videoVars>>

\* AudioRecorder.stop(): self._stream.stop() and close(): no callback after this
AudioStopStream ==
    /\ au_stop_pc = "stream"
    /\ au_stream' = "closed"
    /\ au_stop_pc' = "join"
    /\ UNCHANGED <<au_q, au_stop, au_sf, au_pc, au_data, au_delivered, au_enqueued,
                   au_written, videoVars>>

\* AudioRecorder.stop(): self._writer_thread.join(timeout=3) returning (the thread
\* ended, or the 3 s are over), then the sound file flushed and closed
AudioStopClose ==
    /\ au_stop_pc = "join"
    /\ au_sf' = IF au_sf = "open" THEN "closed" ELSE au_sf
    /\ au_stop_pc' = "done"
    /\ UNCHANGED <<au_q, au_stop, au_stream, au_pc, au_data, au_delivered, au_enqueued,
                   au_written, videoVars>>

\* VideoWriter.write raises on the first write of the batch after a frame has been
\* processed: the handler of the loop reports the error and leaves the loop with
\* the batch still held and nothing stored in _last_exception
WrWriteFails ==
    /\ wr_pc = "process"
    /\ writer = "open"
    /\ LET queue_size == Len(frame_queue)
           mode == NextMode(emergency_mode, frames_behind, queue_size)
           batch == Append(batch_write_buffer, wr_frame)
       IN /\ Len(batch) >= max_batch_size \/ mode
          /\ frames_behind' = NextBehind(frames_behind, queue_size)
          /\ emergency_mode' = mode
          /\ processed_frame' = Overlay(mode)
          /\ high_run' = IF AboveHighWater(queue_size) THEN Min(high_run + 1, RunCap) ELSE 0
          /\ clear_run' = IF AboveHighWater(queue_size) \/ (~emergency_mode /\ mode) THEN 0
                          ELSE IF emergency_mode THEN Min(clear_run + 1, RunCap)
                          ELSE 0
          /\ batch_write_buffer' = batch
    /\ wr_pc' = "final"
    /\ UNCHANGED <<frame_queue, frame_count, dropped_frames, stop_event, writer,
                   last_exception, capVars, wr_frame, dequeued_degraded, sink_count, sink_last,
                   fileVars, ctlVars>>
    /\ UNCHANGED <<lifeVars, auVars>>

(* ---------------- specifications ------------------------------------------- *)

Next ==
    \/ Start
    \/ RlSetup
    \/ RlMonitor
    \/ RlJoinCapture
    \/ RlSentinel
    \/ RlJoinWriter
    \/ RlRelease
    \/ RlAudioStop
    \/ RlMux
    \/ RlCleanup
    \/ Stop
    \/ StopCleanup
    \/ CapExit
    \/ (next_frame_time <= MaxTicks /\ CapDue)
    \/ CapPut
    \/ CapScanTest
    \/ CapScanGet
    \/ CapPutBack
    \/ CapPutNew
    \/ WrLoop
    \/ WrGet
    \/ WrGetTimeout
    \/ WrProcess
    \/ WrFinal

Spec == Init /\ [][Next]_vars

\* sessions in which a write of the writer thread may fail
WriteFaultNext == Next \/ WrWriteFails

SpecWriteFault == Init /\ [][WriteFaultNext]_vars

\* the steps of the recording thread (_recording_loop with _finalize_recording)
RecordingLoopStep ==
    \/ RlSetup
    \/ RlMonitor
    \/ RlJoinCapture
    \/ RlJoinCaptureTimeout
    \/ RlSentinel
    \/ RlJoinWriter
    \/ RlJoinWriterTimeout
    \/ RlRelease
    \/ RlAudioStop
    \/ RlMux
    \/ RlCleanup

\* the steps of the capture thread and of the writer thread in short sessions
\* (the queue never fills), failures apart
LifeCaptureStep == CapExit \/ (next_frame_time <= LifeTicks /\ CapDue) \/ CapPut

LifeWriterStep == WrLoop \/ WrGet \/ WrGetTimeout \/ WrProcess \/ WrFinal

\* the life of one session: stop() called again, threads that fail, joins that
\* expire on a thread that is slow to end
LifeNext ==
    \/ Start
    \/ Stop
    \/ StopAgain
    \/ StopCleanup
    \/ StopJoinTimeout
    \/ RecordingLoopStep
    \/ LifeCaptureStep
    \/ CapGrabFails
    \/ LifeWriterStep
    \/ WrFlushFails

SpecLife == Init /\ [][LifeNext]_vars

\* SpecLife with a recording thread that keeps being scheduled; nothing is assumed
\* of the capture thread and the writer thread, which may stall for ever
SpecLifeLoopFair == SpecLife /\ WF_vars(RecordingLoopStep)

\* SpecLife with every thread and a pending stop() scheduled again and again
SpecLifeFair ==
    /\ SpecLife
    /\ WF_vars(RecordingLoopStep)
    /\ WF_vars(LifeCaptureStep)
    /\ WF_vars(LifeWriterStep)
    /\ WF_vars(StopCleanup)

\* short sessions of one recorder, one after the other: start() called again after
\* the recording thread has ended
RestartNext ==
    \/ Start
    \/ Restart
    \/ Stop
    \/ StopCleanup
    \/ RlSetup
    \/ RlMonitor
    \/ RlJoinCapture
    \/ RlSentinel
    \/ RlJoinWriter
    \/ RlRelease
    \/ RlAudioStop
    \/ RlMux
    \/ RlCleanup
    \/ LifeCaptureStep
    \/ LifeWriterStep

SpecRestart == Init /\ [][RestartNext]_vars

\* the AudioRecorder on its own, started and stopped by its owner
AudioNext ==
    \/ AudioStart
    \/ AudioCallback
    \/ AuLoop
    \/ AuGet
    \/ AuGetTimeout
    \/ AuWrite
    \/ AudioStop
    \/ AudioStopStream
    \/ AudioStopClose

SpecAudio == Init /\ [][AudioNext]_vars

\* capture iterations completed, frames dequeued by the writer thread
Captured == next_frame_time - 1

Dequeued == sink_count + Len(batch_write_buffer)

\* the writer thread is due under the schedule of SpecBacklog
WriterTurn == 2 * (Dequeued + 1) <= Captured

\* a consumer at half the rate of the producer: the scheduler lets the writer thread
\* dequeue one frame after every second capture iteration, one thread running at
\* a time
BacklogNext ==
    \/ Start
    \/ RlSetup
    \/ (wr_pc = "loop" /\ ~WriterTurn /\ next_frame_time <= BacklogTicks /\ CapDue)
    \/ CapPut
    \/ CapScanTest
    \/ CapScanGet
    \/ CapPutBack
    \/ CapPutNew
    \/ (cap_pc = "loop" /\ WriterTurn /\ WrLoop)
    \/ WrGet
    \/ WrProcess

SpecBacklog == Init /\ [][BacklogNext]_vars

\* Spec with a capture thread that keeps being scheduled; no assumption on the
\* writer thread, which may stall for ever
SpecFair == Spec /\ WF_vars(CaptureStep)

(* ---------------- properties ------------------------------------------------ *)

Abs(x) == IF x < 0 THEN -x ELSE x

\* the recording loop, the capture thread and the writer thread have all ended
SessionEnded == rl_pc = "done" /\ cap_pc = "done" /\ wr_pc = "done"

\* the frame numbers of a sequence of frames
Numbers(frames) == [i \in 1..Len(frames) |-> frames[i].frame_number]

NonDecreasing(ns) == \A i \in 1..(Len(ns) - 1) : ns[i] <= ns[i + 1]

\* the frames of the queue without the sentinel
QueuedFrames == SelectSeq(frame_queue, LAMBDA f : f # None)

\* the batch that the writer thread writes if its next step is a write
PendingBatch ==
    IF wr_pc = "process" THEN Append(batch_write_buffer, wr_frame) ELSE batch_write_buffer

\* the capture thread's next step enqueues its new frame
EnqueuesNew ==
    /\ ~QueueFull(frame_queue)
    /\ cap_pc = "grab" \/ (cap_pc = "putback" /\ temp_frames = <<>>)

\* the frames that the capture thread's next step discards
DropsNow ==
    IF cap_pc = "scan_get" /\ frame_queue # <<>> /\ Head(frame_queue) # None
    THEN (IF Head(frame_queue).is_key_frame THEN {} ELSE {Head(frame_queue)})
    ELSE IF \/ cap_pc = "scan_get"
            \/ cap_pc = "putback" /\ QueueFull(frame_queue)
    THEN {temp_frames[i] : i \in 1..Len(temp_frames)} \cup {frame_data}
    ELSE {}

\* C1 (drop accounting): once the session has ended, frames produced minus frames
\* dropped equals the number of frames written to the video sink, within 1
DropAccounting ==
    SessionEnded => Abs(frame_count - dropped_frames - sink_count) <= 1

\* C2 (sequence monotonicity): consecutive frames handed to the video sink have
\* non-decreasing frame numbers, and the overflow handling keeps the frames that
\* survive in the queue in their order
SequenceMonotonic ==
    [][/\ sink_count' # sink_count =>
            NonDecreasing(<<sink_last>> \o Numbers(PendingBatch))
       /\ NonDecreasing(Numbers(QueuedFrames))']_vars

\* C3: two frames enqueued one after the other by the capture thread, on the normal
\* or on the overflow path, have strictly increasing frame numbers and
\* non-decreasing timestamps
EnqueuedIncreasing ==
    [][(EnqueuesNew /\ cap_pc' = "loop" /\ last_put # NoFrame) =>
          /\ last_put'.frame_number > last_put.frame_number
          /\ last_put'.timestamp >= last_put.timestamp]_vars

\* C4 (anchor preservation): the overflow handling discards no key frame while a
\* frame that is not a key frame is in the queue
AnchorPreserved ==
    \A f \in DropsNow :
        f.is_key_frame =>
            \A i \in 1..Len(frame_queue) :
                frame_queue[i] = None \/ frame_queue[i].is_key_frame

\* C5 (overflow policy): a push that found the queue full ends with one more drop
\* counted and the new frame in the queue; where no frame other than key frames was
\* found within the scan bound, the oldest frame has been evicted
OverflowPolicy ==
    [][(cap_pc \in {"scan_get", "putback"} /\ cap_pc' = "loop") =>
          /\ dropped_frames' = dropped_frames + 1
          /\ frame_queue' # <<>>
          /\ frame_queue'[Len(frame_queue')] = frame_data]_vars

\* C6: the capture thread never blocks on the frame queue: while it runs it always
\* has a step to take, whatever the queue holds and whatever the writer thread does,
\* and an iteration that was begun is completed even if the writer thread stalls
CaptureNeverBlocks ==
    /\ [](CapAlive => ENABLED CaptureStep)
    /\ [](cap_pc \in {"grab", "scan", "scan_get", "putback"}
            => <>(cap_pc = "loop"))

\* C6 witness: the writer thread never dequeued a frame, the queue is full and the
\* capture thread has completed two iterations on the overflow path
CaptureNeverBlocksWitness ==
    /\ QueueFull(frame_queue)
    /\ cap_pc = "loop"
    /\ dropped_frames = 2
    /\ Dequeued = 0
    /\ wr_pc = "loop"

\* the step is an observation of the writer thread
Observes == wr_pc = "process" /\ wr_pc' = "loop"

NormalAfterRun ==
    [][Observes /\ emergency_mode =>
          /\ ~emergency_mode' => clear_run' >= BehindLimit
          /\ clear_run' >= BehindLimit => ~emergency_mode']_vars

\* the merge failed for want of the tool, by its exit code or by the timeout
MergeFailed == merge_result \in {"tool_missing", "nonzero_exit", "timeout"}

\* C9 (reconciliation fallback): after a failed merge the raw video and the raw
\* audio file are both still on disk with content
FallbackKeepsRaw ==
    (rl_pc = "done" /\ MergeFailed) => (video_file = "ok" /\ audio_file = "ok")

MergeStep == rl_pc = "fin_mux" /\ rl_pc' = "fin_cleanup"

\* the outcomes of _mux_audio_video that one of its checks on the two files raises
PreconditionFailed(outcome) ==
    outcome \in {"audio_missing", "video_missing", "audio_too_small", "video_too_small"}

\* C11 (merge preconditions): the merge tool is run only on a video file and an audio
\* file that both exist with at least the minimum plausible size; a merge step that
\* fails a precondition does not run the tool and leaves both files as they were
MergePreconditions ==
    [][MergeStep =>
        /\ ToolRan(merge_result') => (video_file = "ok" /\ audio_file = "ok")
        /\ PreconditionFailed(merge_result') =>
              (~ToolRan(merge_result') /\ UNCHANGED <<video_file, audio_file>>)
        /\ (video_file # "ok" \/ audio_file # "ok") => PreconditionFailed(merge_result')
      ]_vars

\* C11 witness: a merge step refused a file that is too small and both files are
\* still there
MergePreconditionsWitness ==
    /\ rl_pc = "fin_cleanup"
    /\ merge_result \in {"audio_too_small", "video_too_small"}
    /\ video_file # "absent"
    /\ audio_file # "absent"

\* C12 (a merge failure is not pipeline-fatal): a merge step that fails leaves the
\* stored error of the recorder unchanged and hands over to the cleanup step, which
\* can always be taken
MergeFailureContained ==
    /\ [][(MergeStep /\ merge_result' # "merged") => UNCHANGED last_exception]_vars
    /\ [][rl_pc = "fin_mux" => rl_pc' \in {"fin_mux", "fin_cleanup"}]_vars
    /\ [](rl_pc = "fin_cleanup" => ENABLED RlCleanup)

\* C12 witness: a session that finalized after a failed merge with no stored error,
\* the writer released by the cleanup
MergeFailureContainedWitness ==
    /\ rl_pc = "done"
    /\ MergeFailed
    /\ last_exception = "none"
    /\ writer = "released"

\* C17 (finalization order): whenever the merge step is about to run, the video
\* writer has been released and the audio recorder has been stopped
FinalizationOrder ==
    rl_pc = "fin_mux" => (writer # "open" /\ audio_recorder = "stopped")

\* C17 witness: the merge step ran in a session that had opened its video writer
FinalizationOrderWitness ==
    /\ rl_pc = "fin_cleanup"
    /\ merge_result # "none"
    /\ writer = "released"
    /\ audio_recorder = "stopped"

\* the audio callback delivers a block to a full queue
AudioOverflow == au_delivered' = au_delivered + 1 /\ Len(au_q) >= AudioQueueMax

\* C19 (audio overflow policy): a block delivered while the audio queue is full
\* takes the place of the oldest queued block, which is dropped
AudioOverflowDropsOldest ==
    [][AudioOverflow => au_q' = Append(Tail(au_q), au_delivered')]_vars

StrictlyIncreasing(ns) == \A i \in 1..Len(ns), j \in 1..Len(ns) : i < j => ns[i] < ns[j]

\* C20 (audio ordering): the blocks written to the sound file are delivered blocks,
\* each written once, in the order of their delivery
AudioOrderPreserved ==
    /\ StrictlyIncreasing(au_written)
    /\ \A i \in 1..Len(au_written) : au_written[i] \in 1..au_delivered

\* C20 witness: the writer loop has ended with several blocks written and at least
\* one block lost
AudioOrderPreservedWitness ==
    /\ au_pc = "done"
    /\ Len(au_written) >= 2
    /\ Len(au_written) < au_delivered

\* the resources that _cleanup releases are not held
Released == writer # "open" /\ sct # "open"

StopInStartingTerminates == (rl_pc = "setup" /\ stop_event) ~> (rl_pc = "done")

\* the monitor loop leaves Running because it finds one of the two threads gone
ThreadDeathObserved ==
    /\ rl_pc = "monitor"
    /\ rl_pc' = "fin_join_capture"
    /\ ~CapAlive \/ ~WrAlive

\* C15 (thread death is a hard stop): when the monitor loop finds the capture thread
\* or the writer thread gone, the session goes on to Stopping with the stop signal set
ThreadDeathSetsStop == [][ThreadDeathObserved => stop_event']_vars

\* C16 (bounded stopping): once the recording loop has left Running, its
\* finalization reaches the end of the cleanup step, whatever the capture thread
\* and the writer thread do
FinalizationCompletes == (rl_pc = "fin_join_capture") ~> (rl_pc = "done")

\* C16 witness: a session finalized while its capture thread and its writer thread
\* were both still alive
FinalizationCompletesWitness == rl_pc = "done" /\ CapAlive /\ WrAlive

\* C18 (terminal states are final): a recorder that has finalized a session is never
\* again in Running with a capture thread and a writer thread
RunningNotReentered == ~(sessions >= 1 /\ rl_pc = "monitor" /\ CapAlive /\ WrAlive)

\* C29 (no audio, no temporary file): in a session with audio recording disabled the
\* video writer is opened on the configured output path: the output file exists from
\* then on, no temporary video file is made and no merge step runs
DirectOutputWithoutAudio ==
    (~record_audio /\ writer # "none") =>
        (output_file # "absent" /\ video_file = "absent" /\ merge_result = "none")

\* C29 witness: a session without audio, started, stopped and finalized, with frames
\* written and the video at the output path
DirectOutputWithoutAudioWitness ==
    /\ ~record_audio
    /\ rl_pc = "done"
    /\ st_pc = "done"
    /\ sink_count > 0
    /\ writer = "released"
    /\ output_file = "ok"

\* C21 (the audio callback never blocks): while the stream runs a callback can
\* always be taken, whatever the queue and the writer loop are at, and it does
\* nothing but push its block or let it go
AudioCallbackNonBlocking ==
    /\ []((au_stream = "running" /\ au_delivered < MaxBlocks) => ENABLED AudioCallback)
    /\ [][au_delivered' # au_delivered =>
            /\ au_q' \in {au_q, Append(au_q, au_delivered')}
            /\ UNCHANGED <<au_stop, au_stream, au_sf, au_pc, au_data, au_stop_pc,
                           au_written>>
         ]_vars

\* C21 witness: a callback has returned from a full queue that the writer loop has
\* not touched yet
AudioCallbackNonBlockingWitness ==
    /\ au_stream = "running"
    /\ Len(au_q) = AudioQueueMax
    /\ au_delivered > AudioQueueMax
    /\ au_written = <<>>
    /\ au_data = 0

\* C22 (audio drain on shutdown): when stop() has returned and the writer loop has
\* ended, the queue is empty and every block that was put into it is in the file
AudioDrained ==
    (au_stop_pc = "done" /\ au_pc = "done" /\ au_sf = "closed") =>
        (au_q = <<>> /\ Len(au_written) = au_enqueued)

\* C27 (status reporting never raises into the caller): start() leaves the recorder
\* with its sound file open, whatever the status callback does
StatusNeverRaises ==
    [][(au_stream = "none" /\ au_stream' = "running") => au_sf' = "open"]_vars


\* the pixel buffers of the frame records that wait in the frame queue
QueueBuffers == {FrameBuffer(QueuedFrames[i]) : i \in 1..Len(QueuedFrames)}

\* the pixel buffers that the writer thread holds: the batch and the frame it
\* composites
WriterBuffers == {FrameBuffer(PendingBatch[i]) : i \in 1..Len(PendingBatch)}

\* the pixel buffers that the capture thread works on: the pool slot it refills,
\* then the record it has built and the records it took out of a full queue
CaptureBuffers ==
    IF cap_pc = "grab" THEN {buffer_index}
    ELSE IF cap_pc \in {"scan", "scan_get", "putback"}
    THEN {FrameBuffer(frame_data)} \cup
         {FrameBuffer(temp_frames[i]) : i \in 1..Len(temp_frames)}
    ELSE {}

\* C28 (buffer ownership): the pool buffer that the capture thread refills is never
\* the buffer of a frame that waits in the queue, sits in the writer's batch or is
\* being composited, and no buffer is held by both threads at once
BufferOwnership ==
    /\ cap_pc = "grab" => buffer_index \notin (QueueBuffers \cup WriterBuffers)
    /\ CaptureBuffers \cap WriterBuffers = {}
    /\ \A i, j \in 1..Len(QueuedFrames) :
           i # j => FrameBuffer(QueuedFrames[i]) # FrameBuffer(QueuedFrames[j])

\* C28 witness: a pool slot is refilled for the second time at least while more
\* frames than the pool has slots wait in the queue and the writer holds a batch
BufferOwnershipWitness ==
    /\ cap_pc = "grab"
    /\ next_frame_time > PoolSize
    /\ Len(QueuedFrames) > PoolSize
    /\ PendingBatch # <<>>

\* C26 (resource release on every exit path): once the recording loop has finalized,
\* the video writer, the screen-capture handles and the audio recorder are released
ResourcesReleased ==
    rl_pc = "done" =>
        /\ writer # "open"
        /\ sct # "open"
        /\ thread_sct # "open"
        /\ audio_recorder # "running"

\* C25 (first fatal error is stored): a worker thread that ends on an error leaves
\* an error stored for the recorder, and a stored error is not replaced
FatalErrorStored ==
    /\ [][(cap_pc = "grab" /\ cap_pc' = "done") => last_exception' # "none"]_vars
    /\ [][(wr_pc = "get" /\ wr_pc' = "done") => last_exception' # "none"]_vars
    /\ [][last_exception # "none" => last_exception' = last_exception]_vars

\* C30 (a grab failure stops the capture): a capture thread that has ended on a
\* failed grab captures and enqueues nothing more, and the recording loop that
\* monitors it goes on to finalize the session
GrabFailureEndsSession ==
    /\ [][cap_pc = "done" =>
            /\ cap_pc' = "done"
            /\ frame_count' = frame_count
            /\ last_put' = last_put]_vars
    /\ (cap_pc = "done" /\ rl_pc = "monitor") ~> (rl_pc = "done")

\* C30 witness: a session finalized after its capture thread had ended, with no call
\* of stop() and the stop event not set
GrabFailureEndsSessionWitness ==
    /\ rl_pc = "done"
    /\ cap_pc = "done"
    /\ stop_calls = 0
    /\ ~stop_event

\* C23 (a single-frame failure is logged, the loop goes on): the writer thread that
\* processes a dequeued frame goes on to the next iteration of its loop
WriterContinues ==
    [][wr_pc = "process" => wr_pc' \in {"process", "loop"}]_vars

\* the frames on their way to the video sink, with those already written
InPipeline ==
    sink_count + Len(PendingBatch) + Len(QueuedFrames) + Len(temp_frames)

\* C24 (writer drain on shutdown): after the stop signal no frame that is in the
\* queue or with the writer thread is lost before it is written, and the video sink
\* is not released while the writer thread still runs
DrainOnShutdown ==
    /\ [][stop_event => InPipeline' >= InPipeline]_vars
    /\ [][(stop_event /\ writer = "open" /\ writer' # "open") => ~WrAlive]_vars


\* C35 (no write after release): the video writer is released, by the finalization
\* or by the _cleanup of stop(), only when the writer thread has ended
ReleasedAfterWriterExit ==
    [][(writer = "open" /\ writer' # "open") => ~WrAlive]_vars

\* C36 (stop() returns on a finalized session): when a call of stop() returns with
\* its stop signal still set, in a session that has recorded a video file and an
\* audio file of plausible size, the recording loop has ended
StopReturnsFinalized ==
    [][(/\ st_pc = "join" /\ st_pc' = "done"
        /\ stop_event
        /\ video_file = "ok" /\ audio_file = "ok") => rl_pc = "done"]_vars

\* start() goes past its guard: there is no recording thread, or it has ended
StartAllowed == rl_pc \in {"idle", "done"}

\* C38 (one capture thread, one writer thread): whenever start() would spawn a new
\* recording loop, no capture thread and no writer thread of an earlier run is alive
SingleWorkers ==
    StartAllowed => ~CapAlive /\ ~WrAlive

\* C39 (audio that fails to start): a session with audio enabled whose audio recorder
\* did not start, finalized after its video writer was opened and released, has its
\* video at the configured output path
VideoOnlyAtOutputPath ==
    (rl_pc = "done" /\ record_audio /\ audio_recorder = "none" /\ writer = "released")
        => output_file # "absent"


\* C33 (a sink that fails to open is fatal): once the video writer has failed to open,
\* no capture thread and no writer thread exists, the error stays stored, and the
\* recording loop goes on to finalize and to release what the session had opened,
\* the audio recorder included
SinkOpenFailureFatal ==
    /\ [](last_exception = "writer_open_failed" => ~CapAlive /\ ~WrAlive)
    /\ [][(rl_pc = "setup" /\ rl_pc' = "fin_join_capture") =>
            last_exception' # "none"]_vars
    /\ [][last_exception = "writer_open_failed" =>
            last_exception' = "writer_open_failed"]_vars
    /\ (rl_pc = "fin_join_capture" /\ writer = "none") ~>
            (/\ rl_pc = "done"
             /\ last_exception # "none"
             /\ audio_recorder # "running"
             /\ sct # "open")

\* C33 witness: a session finalized after its video writer failed to open, with the
\* error stored, no thread spawned and the audio recorder it had started stopped
SinkOpenFailureFatalWitness ==
    /\ rl_pc = "done"
    /\ last_exception = "writer_open_failed"
    /\ cap_pc = "idle" /\ wr_pc = "idle"
    /\ audio_recorder = "stopped"


\* the step of the capture thread that ends the handling of one overflow
OverflowEnds == cap_pc \in {"scan_get", "putback"} /\ cap_pc' = "loop"

\* the frames lost by the overflow handling that this step ends: the queued frame it
\* has discarded, and the new frame with the key frames held aside when the new
\* frame is not enqueued
LostInOverflow ==
    (IF dropped_old THEN 1 ELSE 0) +
    (IF frame_queue' = Append(frame_queue, frame_data) THEN 0
     ELSE 1 + Len(temp_frames))

\* C37 (one overflow, one frame lost): the handling of an overflow ends with the drop
\* counter one higher and exactly one frame lost, a queued frame or the new frame,
\* the key frames taken out of the queue being back in it
OverflowLosesOne ==
    [][OverflowEnds =>
          /\ dropped_frames' = dropped_frames + 1
          /\ LostInOverflow = 1]_vars


\* C40 (anchor spacing): of two frames that the capture thread enqueues one after the
\* other, on the normal or on the overflow path, at most one is flagged as a key
\* frame
AnchorSpacing ==
    [][(last_put' # last_put /\ last_put # NoFrame) =>
          ~(last_put.is_key_frame /\ last_put'.is_key_frame)]_vars


\* C32 (a notification every 5 drops): each time the drop counter reaches a multiple
\* of 5, the capture thread signals: it changes the mode of the pipeline or emits
\* its report
NotifiedEveryFiveDrops ==
    [][(dropped_frames' # dropped_frames /\ dropped_frames' % 5 = 0) =>
          \/ emergency_mode' # emergency_mode
          \/ last_emergency_log' # last_emergency_log]_vars


\* the writer thread ends the processing of the frame it has dequeued
FrameProcessed == wr_pc = "process" /\ wr_pc' # "process"

\* C31 as stated (effect of Degraded): a frame dequeued while the pipeline is in
\* emergency mode is forwarded without overlay compositing
DequeuedDegradedIsRaw ==
    [][(FrameProcessed /\ dequeued_degraded) => processed_frame' = "raw"]_vars

\* C31 (effect of Degraded): a frame is composited exactly when an overlay is
\* configured and the pipeline is not in emergency mode once the adaptive control
\* of the frame's own iteration has run; in emergency mode at that point the frame
\* is forwarded as dequeued
OverlaySkippedWhenDegraded ==
    [][FrameProcessed =>
          /\ emergency_mode' => processed_frame' = "raw"
          /\ processed_frame' = "overlaid" =>
                ~emergency_mode' /\ (mouse_highlight \/ use_webcam)]_vars

\* C31 witness: a frame dequeued and processed in emergency mode has been forwarded
\* without compositing, frames before it having been composited and written
OverlaySkippedWhenDegradedWitness ==
    /\ wr_pc = "loop"
    /\ emergency_mode
    /\ dequeued_degraded
    /\ processed_frame = "raw"
    /\ sink_count > 0


\* C34 (every dequeued frame is written exactly once): a writer thread that exits
\* while the video writer is open leaves no dequeued frame unwritten in its batch
\* buffer, the one frame whose write failed apart
BatchWrittenAtExit ==
    [][(wr_pc # "done" /\ wr_pc' = "done" /\ writer = "open") =>
          Len(batch_write_buffer') <= 1]_vars

====
